---- MODULE Spec2Model ----
(***************************************************************************)
(* Model of gps_metadata.py: reading the GPSInfo block of the .jpg files   *)
(* of a directory and writing one CSV row per image.                       *)
(*                                                                         *)
(* Python values are records [kind, n, s, seq]; all values have the same   *)
(* shape so that any two of them can be compared.  A float is kept as the  *)
(* exact numerator over 3600 (one arc second), so d + m/60 + s/3600 of     *)
(* integral d, m, s is exact; IEEE rounding is not modelled.               *)
(* Text (str.lower, str.endswith, the order of sorted) works on the code   *)
(* points of the strings, given by the table Chars.                        *)
(***************************************************************************)
EXTENDS Integers, Sequences, FiniteSets, TLC

(* ---------------- bounds ---------------- *)
MaxFiles == 2
MaxRuns == 2

(* ---------------- Python values ---------------- *)
PyNone == [kind |-> "none", n |-> 0, s |-> "", seq |-> <<>>]
PyStr(x) == [kind |-> "str", n |-> 0, s |-> x, seq |-> <<>>]
PyInt(x) == [kind |-> "int", n |-> x, s |-> "", seq |-> <<>>]
PyFloat(x) == [kind |-> "float", n |-> x, s |-> "", seq |-> <<>>]
PyTuple(q) == [kind |-> "seq", n |-> 0, s |-> "", seq |-> q]
Empty == PyStr("")

(* bool(v) *)
Truthy(v) ==
  CASE v.kind = "none" -> FALSE
    [] v.kind = "str" -> v.s # ""
    [] v.kind = "int" -> v.n # 0
    [] v.kind = "float" -> v.n # 0
    [] OTHER -> Len(v.seq) > 0

(* dictionary keys: a tag name, or a numeric tag id *)
StrKey(x) == [isStr |-> TRUE, name |-> x, id |-> 0]
IntKey(x) == [isStr |-> FALSE, name |-> "", id |-> x]

(* ---------------- text ---------------- *)
Chars(s) ==
  CASE s = "GPSVersionID" -> <<71, 80, 83, 86, 101, 114, 115, 105, 111, 110, 73, 68>>
    [] s = "GPSLatitudeRef" -> <<71, 80, 83, 76, 97, 116, 105, 116, 117, 100, 101, 82, 101, 102>>
    [] s = "GPSLatitude" -> <<71, 80, 83, 76, 97, 116, 105, 116, 117, 100, 101>>
    [] s = "GPSLongitudeRef" -> <<71, 80, 83, 76, 111, 110, 103, 105, 116, 117, 100, 101, 82, 101, 102>>
    [] s = "GPSLongitude" -> <<71, 80, 83, 76, 111, 110, 103, 105, 116, 117, 100, 101>>
    [] s = "GPSAltitudeRef" -> <<71, 80, 83, 65, 108, 116, 105, 116, 117, 100, 101, 82, 101, 102>>
    [] s = "GPSAltitude" -> <<71, 80, 83, 65, 108, 116, 105, 116, 117, 100, 101>>
    [] s = "a.jpg" -> <<97, 46, 106, 112, 103>>
    [] s = "B.JPG" -> <<66, 46, 74, 80, 71>>
    [] s = "c.png" -> <<99, 46, 112, 110, 103>>
    [] s = ".jpg" -> <<46, 106, 112, 103>>
    [] OTHER -> <<>>

(* str.lower on code points *)
Lower(cs) == [j \in 1..Len(cs) |-> IF cs[j] \in 65..90 THEN cs[j] + 32 ELSE cs[j]]

(* str.endswith on code points *)
EndsWith(cs, suf) ==
  /\ Len(suf) <= Len(cs)
  /\ \A j \in 1..Len(suf) : cs[Len(cs) - Len(suf) + j] = suf[j]

(* filename.lower().endswith('.jpg') *)
IsJpg(filename) == EndsWith(Lower(Chars(filename)), Chars(".jpg"))

(* a < b for str: code point order, a proper prefix first *)
LexLess(a, b) ==
  \/ /\ Len(a) < Len(b)
     /\ \A j \in 1..Len(a) : a[j] = b[j]
  \/ \E j \in 1..Len(a) :
       /\ j <= Len(b)
       /\ a[j] < b[j]
       /\ \A h \in 1..(j - 1) : a[h] = b[h]

(* a < b for two keys of the same type *)
KeyLess(a, b) ==
  IF a.isStr THEN LexLess(Chars(a.name), Chars(b.name)) ELSE a.id < b.id

(* ---------------- PIL.ExifTags ---------------- *)
GPSInfoId == 34853
MakeId == 271

(* TAGS.get(tag_id, tag_id) *)
TagsGet(tag_id) ==
  CASE tag_id = GPSInfoId -> StrKey("GPSInfo")
    [] tag_id = MakeId -> StrKey("Make")
    [] OTHER -> IntKey(tag_id)

GpsTagIds == 0..6
GpsTagName(gps_tag_id) ==
  CASE gps_tag_id = 0 -> "GPSVersionID"
    [] gps_tag_id = 1 -> "GPSLatitudeRef"
    [] gps_tag_id = 2 -> "GPSLatitude"
    [] gps_tag_id = 3 -> "GPSLongitudeRef"
    [] gps_tag_id = 4 -> "GPSLongitude"
    [] gps_tag_id = 5 -> "GPSAltitudeRef"
    [] OTHER -> "GPSAltitude"

(* GPSTAGS.get(gps_tag_id, gps_tag_id) *)
GpsTagsGet(gps_tag_id) ==
  IF gps_tag_id \in GpsTagIds THEN StrKey(GpsTagName(gps_tag_id)) ELSE IntKey(gps_tag_id)

(* ---------------- image files ---------------- *)
(* what Image.open(...)._getexif() gives for a file *)
Corrupt == [kind |-> "corrupt", tags |-> {}, gps |-> <<>>]
NoExif == [kind |-> "noexif", tags |-> {}, gps |-> <<>>]
Exif(tags, gps) == [kind |-> "exif", tags |-> tags, gps |-> gps]

(* a dict from a set of <<key, value>> pairs *)
Dict(pairs) ==
  [key \in {p[1] : p \in pairs} |-> (CHOOSE p \in pairs : p[1] = key)[2]]

Dms(d, m, s) == PyTuple(<<PyInt(d), PyInt(m), PyInt(s)>>)

Contents ==
  { Corrupt,
    NoExif,
    Exif({MakeId}, <<>>),
    Exif({MakeId, GPSInfoId}, Dict({<<2, Dms(10, 30, 0)>>, <<4, Dms(20, 15, 0)>>})),
    Exif({GPSInfoId}, Dict({<<0, PyStr("2.3")>>, <<1, PyStr("N")>>, <<2, Dms(1, 0, 3600)>>,
                            <<5, PyInt(0)>>, <<6, PyStr("12")>>})),
    Exif({GPSInfoId}, Dict({<<2, PyTuple(<<PyInt(10), PyInt(30)>>)>>, <<3, PyStr("E")>>,
                            <<4, PyTuple(<<PyStr("N"), PyInt(15), PyStr("12")>>)>>})),
    Exif({GPSInfoId}, Dict({<<99, PyStr("x")>>, <<4, Dms(20, 15, 0)>>})),
    Exif({GPSInfoId}, Dict({<<99, PyInt(7)>>})),
    Exif({GPSInfoId}, Dict({<<0, PyStr("2.3")>>, <<6, PyInt(12)>>})) }

Filenames == {"a.jpg", "B.JPG", "c.png"}

(* ---------------- get_gps_info ---------------- *)
(* result: raised = an exception leaves the function; info = the TagMap *)
Returned(info) == [raised |-> FALSE, info |-> info]
Raises == [raised |-> TRUE, info |-> <<>>]

TranslateGps(gps) ==
  [key \in {GpsTagsGet(g) : g \in DOMAIN gps} |->
     gps[CHOOSE g \in DOMAIN gps : GpsTagsGet(g) = key]]

(* variant: without the try/except of lines 8 and 23 *)
get_gps_info_nocatch(content) ==
  CASE content.kind = "corrupt" -> Raises
    [] content.kind = "noexif" -> Returned(<<>>)
    [] OTHER ->
         IF \E tag_id \in content.tags : TagsGet(tag_id) = StrKey("GPSInfo")
           THEN Returned(TranslateGps(content.gps))
           ELSE Returned(<<>>)

get_gps_info(content) ==
  CASE content.kind = "corrupt" -> Returned(<<>>)
    [] content.kind = "noexif" -> Returned(<<>>)
    [] OTHER ->
         IF \E tag_id \in content.tags : TagsGet(tag_id) = StrKey("GPSInfo")
           THEN Returned(TranslateGps(content.gps))
           ELSE Returned(<<>>)

(* ---------------- parse_gps_coordinate ---------------- *)
parse_gps_coordinate(coordinate) ==
  IF Truthy(coordinate) /\ coordinate.kind = "seq" /\ Len(coordinate.seq) = 3
    THEN <<coordinate.seq[1], coordinate.seq[2], coordinate.seq[3]>>
    ELSE <<Empty, Empty, Empty>>

(* ---------------- calculate_decimal ---------------- *)
IntLiterals == {"12"}
IntLiteral(s) == 12

(* float(v), in units of 1/3600; ok = FALSE when float(v) raises *)
ToFloat(v) ==
  CASE v.kind = "int" -> [ok |-> TRUE, f |-> 3600 * v.n]
    [] v.kind = "float" -> [ok |-> TRUE, f |-> v.n]
    [] v.kind = "str" /\ v.s \in IntLiterals -> [ok |-> TRUE, f |-> 3600 * IntLiteral(v.s)]
    [] OTHER -> [ok |-> FALSE, f |-> 0]

(* variant: seconds divided by 60 *)
calculate_decimal_sec60(degree, minutes, seconds) ==
  IF ToFloat(degree).ok /\ ToFloat(minutes).ok /\ ToFloat(seconds).ok
    THEN PyFloat(ToFloat(degree).f + (ToFloat(minutes).f \div 60) + (ToFloat(seconds).f \div 60))
    ELSE Empty

(* variant: 0.0 instead of '' when float() raises *)
calculate_decimal_zero(degree, minutes, seconds) ==
  IF ToFloat(degree).ok /\ ToFloat(minutes).ok /\ ToFloat(seconds).ok
    THEN PyFloat(ToFloat(degree).f + (ToFloat(minutes).f \div 60) + (ToFloat(seconds).f \div 3600))
    ELSE PyFloat(0)

calculate_decimal(degree, minutes, seconds) ==
  IF ToFloat(degree).ok /\ ToFloat(minutes).ok /\ ToFloat(seconds).ok
    THEN PyFloat(ToFloat(degree).f + (ToFloat(minutes).f \div 60) + (ToFloat(seconds).f \div 3600))
    ELSE Empty

(* ---------------- column derivation (lines 63-69) ---------------- *)
excluded_keys == {StrKey("GPSAltitudeRef"), StrKey("GPSVersionID")}

LatitudeColumns ==
  <<StrKey("GPSLatitudeDegree"), StrKey("GPSLatitudeMinutes"),
    StrKey("GPSLatitudeSeconds"), StrKey("GPSLatitudeDecimal")>>
LongitudeColumns ==
  <<StrKey("GPSLongDegree"), StrKey("GPSLongMinutes"),
    StrKey("GPSLongSeconds"), StrKey("GPSLongitudeDecimal")>>

Range(q) == {q[j] : j \in 1..Len(q)}

(* sorted(S) raises TypeError when it compares a str with an int *)
Sortable(S) == \A a \in S, b \in S : a.isStr = b.isStr

RECURSIVE Sorted(_)
Sorted(S) ==
  IF S = {} THEN <<>>
  ELSE LET least == CHOOSE x \in S : \A y \in S \ {x} : KeyLess(x, y)
       IN <<least>> \o Sorted(S \ {least})

(* list.remove(x) of an element the list holds once *)
Remove(q, x) == SelectSeq(q, LAMBDA e : e # x)

ExpandLatitude(cols) ==
  IF StrKey("GPSLatitude") \in Range(cols)
    THEN Remove(cols, StrKey("GPSLatitude")) \o LatitudeColumns
    ELSE cols

ExpandLongitude(cols) ==
  IF StrKey("GPSLongitude") \in Range(cols)
    THEN Remove(cols, StrKey("GPSLongitude")) \o LongitudeColumns
    ELSE cols

(* ok = FALSE: sorted raised *)
DeriveColumns(keys) ==
  IF Sortable(keys \ excluded_keys)
    THEN [ok |-> TRUE, cols |-> ExpandLongitude(ExpandLatitude(Sorted(keys \ excluded_keys)))]
    ELSE [ok |-> FALSE, cols |-> <<>>]

(* ---------------- one row (lines 80-113) ---------------- *)
(* dict.get(key, default) *)
DictGet(d, key, default) == IF key \in DOMAIN d THEN d[key] ELSE default

NewRow(filename) ==
  [row |-> <<PyStr(filename)>>,
   gps_lat_degree |-> Empty, gps_lat_minutes |-> Empty, gps_lat_seconds |-> Empty,
   gps_long_degree |-> Empty, gps_long_minutes |-> Empty, gps_long_seconds |-> Empty,
   lat_parses |-> 0, long_parses |-> 0]

(* lines 84-94; lat_parses counts the calls of parse_gps_coordinate *)
(* variant: the split is done once per row and its result reused *)
LatitudePartOnce(st, key, gps_info) ==
  LET dms == IF st.lat_parses = 0
               THEN parse_gps_coordinate(DictGet(gps_info, StrKey("GPSLatitude"), PyNone))
               ELSE <<st.gps_lat_degree, st.gps_lat_minutes, st.gps_lat_seconds>>
  IN [st EXCEPT !.lat_parses = 1,
                !.gps_lat_degree = dms[1],
                !.gps_lat_minutes = dms[2],
                !.gps_lat_seconds = dms[3],
                !.row = Append(@, IF key = LatitudeColumns[1] THEN dms[1]
                                  ELSE IF key = LatitudeColumns[2] THEN dms[2] ELSE dms[3])]

LatitudePart(st, key, gps_info) ==
  LET dms == parse_gps_coordinate(DictGet(gps_info, StrKey("GPSLatitude"), PyNone))
  IN CASE key = LatitudeColumns[1] ->
            [st EXCEPT !.lat_parses = @ + 1, !.gps_lat_degree = dms[1], !.row = Append(@, dms[1])]
       [] key = LatitudeColumns[2] ->
            [st EXCEPT !.lat_parses = @ + 1, !.gps_lat_minutes = dms[2], !.row = Append(@, dms[2])]
       [] OTHER ->
            [st EXCEPT !.lat_parses = @ + 1, !.gps_lat_seconds = dms[3], !.row = Append(@, dms[3])]

(* lines 95-97 *)
LatitudeDecimal(st) ==
  [st EXCEPT !.row = Append(@, calculate_decimal(st.gps_lat_degree, st.gps_lat_minutes,
                                                 st.gps_lat_seconds))]

(* lines 98-108 *)
LongitudePart(st, key, gps_info) ==
  LET dms == parse_gps_coordinate(DictGet(gps_info, StrKey("GPSLongitude"), PyNone))
  IN CASE key = LongitudeColumns[1] ->
            [st EXCEPT !.long_parses = @ + 1, !.gps_long_degree = dms[1], !.row = Append(@, dms[1])]
       [] key = LongitudeColumns[2] ->
            [st EXCEPT !.long_parses = @ + 1, !.gps_long_minutes = dms[2], !.row = Append(@, dms[2])]
       [] OTHER ->
            [st EXCEPT !.long_parses = @ + 1, !.gps_long_seconds = dms[3], !.row = Append(@, dms[3])]

(* lines 109-111 *)
LongitudeDecimal(st) ==
  [st EXCEPT !.row = Append(@, calculate_decimal(st.gps_long_degree, st.gps_long_minutes,
                                                 st.gps_long_seconds))]

(* lines 112-113 *)
(* variant: no cell when the image lacks the tag *)
OtherColumnIfPresent(st, key, gps_info) ==
  IF key \in DOMAIN gps_info THEN [st EXCEPT !.row = Append(@, gps_info[key])] ELSE st

OtherColumn(st, key, gps_info) ==
  [st EXCEPT !.row = Append(@, DictGet(gps_info, key, Empty))]

(* the body of the loop over all_gps_keys *)
KeyStep(st, key, gps_info) ==
  CASE key \in {LatitudeColumns[1], LatitudeColumns[2], LatitudeColumns[3]} ->
         LatitudePart(st, key, gps_info)
    [] key = LatitudeColumns[4] -> LatitudeDecimal(st)
    [] key \in {LongitudeColumns[1], LongitudeColumns[2], LongitudeColumns[3]} ->
         LongitudePart(st, key, gps_info)
    [] key = LongitudeColumns[4] -> LongitudeDecimal(st)
    [] OTHER -> OtherColumn(st, key, gps_info)

RECURSIVE RowLoop(_, _, _, _)
RowLoop(st, cols, j, gps_info) ==
  IF j > Len(cols) THEN st ELSE RowLoop(KeyStep(st, cols[j], gps_info), cols, j + 1, gps_info)

BuildRow(filename, gps_info, cols) == RowLoop(NewRow(filename), cols, 1, gps_info)

(* ---------------- csv.writer ---------------- *)
(* the text of one field: None is written as the empty field, a number as its *)
(* digits, so the str "12" and the int 12 give the same field                *)
CsvField(v) ==
  CASE v.kind = "none" -> [kind |-> "text", n |-> 0, s |-> "", seq |-> <<>>]
    [] v.kind = "str" /\ v.s \in IntLiterals ->
         [kind |-> "digits", n |-> IntLiteral(v.s), s |-> "", seq |-> <<>>]
    [] v.kind = "str" -> [kind |-> "text", n |-> 0, s |-> v.s, seq |-> <<>>]
    [] v.kind = "int" -> [kind |-> "digits", n |-> v.n, s |-> "", seq |-> <<>>]
    [] v.kind = "float" -> [kind |-> "decimal", n |-> v.n, s |-> "", seq |-> <<>>]
    [] OTHER -> [kind |-> "repr", n |-> 0, s |-> "", seq |-> v.seq]

KeyValue(key) == IF key.isStr THEN PyStr(key.name) ELSE PyInt(key.id)

(* writer.writerow(row) *)
CsvRow(row) == [j \in 1..Len(row) |-> CsvField(row[j])]

(* line 75 *)
Headers(cols) == <<PyStr("Image Name")>> \o [j \in 1..Len(cols) |-> KeyValue(cols[j])]

(* open(output_csv, mode='w'): the content of the file once opened *)
(* variant: mode='a' *)
OpenAppend(prior) == prior
OpenWrite(prior) == <<>>

(* ---------------- discovery pass (lines 55-61) ---------------- *)
NoScan == [raised |-> FALSE, keys |-> {}, list |-> <<>>, read |-> <<>>]

(* the body of the loop over os.listdir(directory) for one entry *)
ScanStep(acc, entry) ==
  IF ~IsJpg(entry.name) THEN acc
  ELSE LET res == get_gps_info(entry.content)
           seen == [acc EXCEPT !.read = Append(@, entry.name)]
       IN IF res.raised THEN [seen EXCEPT !.raised = TRUE]
          ELSE IF DOMAIN res.info # {}
            THEN [seen EXCEPT !.keys = @ \cup DOMAIN res.info,
                              !.list = Append(@, [filename |-> entry.name, gps_info |-> res.info])]
            ELSE seen

RECURSIVE ScanLoop(_, _, _)
ScanLoop(acc, dir, j) ==
  IF j > Len(dir) \/ acc.raised THEN acc ELSE ScanLoop(ScanStep(acc, dir[j]), dir, j + 1)

(* ---------------- write_gps_to_csv, run to its end without I/O errors ----- *)
DataRows(list, cols) ==
  [j \in 1..Len(list) |-> CsvRow(BuildRow(list[j].filename, list[j].gps_info, cols).row)]

Export(dir, prior) ==
  LET scan == ScanLoop(NoScan, dir, 1)
      dc == DeriveColumns(scan.keys)
  IN IF scan.raised \/ ~dc.ok THEN prior
     ELSE OpenWrite(prior) \o <<CsvRow(Headers(dc.cols))>> \o DataRows(scan.list, dc.cols)

(* except Exception (line 117): every exception modelled is an Exception *)
(* variant: except OSError *)
ExceptOSErrorOnly(exc) == exc = "OSError"
ExceptCatches(exc) == TRUE

(* ---------------- state ---------------- *)
VARIABLES
  directory,      \* the directory: its entries <<name, content>> in listing order
  csv,            \* the rows of the output file
  pc,             \* position in write_gps_to_csv
  run,            \* number of the current call of write_gps_to_csv
  listing,        \* the result of os.listdir
  i,              \* index of the next entry of listing
  scan,           \* all_gps_keys (a set), gps_data_list and the files read
  all_gps_keys,   \* all_gps_keys after line 63 (a list)
  r,              \* index of the next element of gps_data_list
  last,           \* the local variables at the end of the latest row
  opened,         \* the output file was opened by the current call
  diag,           \* diagnostics printed by line 118 in the current call
  raised,         \* an exception left write_gps_to_csv
  failure,        \* what failed in the current call
  ioFailed,       \* some call met an I/O error
  csvPrev         \* the output file when the current call began

vars == <<directory, csv, pc, run, listing, i, scan, all_gps_keys, r, last, opened,
          diag, raised, failure, ioFailed, csvPrev>>

StaleFile == <<CsvRow(<<PyStr("Image Name")>>), CsvRow(<<PyStr("old.jpg")>>)>>

RECURSIVE Directories(_)
Directories(n) ==
  IF n = 0 THEN {<<>>}
  ELSE LET shorter == Directories(n - 1)
       IN shorter \cup
          {Append(d, [name |-> f, content |-> c]) :
             d \in {x \in shorter : Len(x) = n - 1}, f \in Filenames, c \in Contents}

DistinctNames(d) == \A a, b \in 1..Len(d) : a # b => d[a].name # d[b].name

Init ==
  /\ directory \in {d \in Directories(MaxFiles) : DistinctNames(d)}
  /\ csv \in {<<>>, StaleFile}
  /\ pc = "start"
  /\ run = 1
  /\ listing = <<>>
  /\ i = 1
  /\ scan = NoScan
  /\ all_gps_keys = <<>>
  /\ r = 1
  /\ last = NewRow("")
  /\ opened = FALSE
  /\ diag = 0
  /\ raised = FALSE
  /\ failure = "none"
  /\ ioFailed = FALSE
  /\ csvPrev = csv

(* Image.open(os.path.join(directory, filename)) *)
FileContent(filename) == (CHOOSE e \in Range(directory) : e.name = filename).content

(* lines 117-118: the handler of write_gps_to_csv, then the return *)
Caught(what, exc) ==
  /\ failure' = what
  /\ diag' = diag + 1
  /\ raised' = ~ExceptCatches(exc)
  /\ pc' = "done"

(* line 55: os.listdir(directory) *)
ListDir ==
  /\ pc = "start"
  /\ listing' = [j \in 1..Len(directory) |-> directory[j].name]
  /\ i' = 1
  /\ pc' = "scan"
  /\ UNCHANGED <<directory, csv, run, scan, all_gps_keys, r, last, opened, diag, raised,
                 failure, ioFailed, csvPrev>>

ListDirFails ==
  /\ pc = "start"
  /\ Caught("listdir", "OSError")
  /\ ioFailed' = TRUE
  /\ UNCHANGED <<directory, csv, run, listing, i, scan, all_gps_keys, r, last, opened, csvPrev>>

(* lines 56-61 for the next entry *)
ScanFile ==
  /\ pc = "scan"
  /\ i <= Len(listing)
  /\ LET next == ScanStep(scan, [name |-> listing[i], content |-> FileContent(listing[i])])
     IN /\ scan' = next
        /\ IF next.raised
             THEN /\ Caught("get_gps_info", "Exception")
                  /\ i' = i
             ELSE /\ i' = i + 1
                  /\ UNCHANGED <<pc, diag, raised, failure>>
  /\ UNCHANGED <<directory, csv, run, listing, all_gps_keys, r, last, opened, ioFailed, csvPrev>>

(* lines 63-69 *)
Columns ==
  /\ pc = "scan"
  /\ i > Len(listing)
  /\ LET dc == DeriveColumns(scan.keys)
     IN IF dc.ok
          THEN /\ all_gps_keys' = dc.cols
               /\ pc' = "open"
               /\ UNCHANGED <<diag, raised, failure>>
          ELSE /\ Caught("sorted", "TypeError")
               /\ UNCHANGED all_gps_keys
  /\ UNCHANGED <<directory, csv, run, listing, i, scan, r, last, opened, ioFailed, csvPrev>>

(* lines 71-76: open the file and write the header row *)
OpenOutput ==
  /\ pc = "open"
  /\ csv' = OpenWrite(csv) \o <<CsvRow(Headers(all_gps_keys))>>
  /\ opened' = TRUE
  /\ r' = 1
  /\ pc' = "rows"
  /\ UNCHANGED <<directory, run, listing, i, scan, all_gps_keys, last, diag, raised, failure,
                 ioFailed, csvPrev>>

OpenOutputFails ==
  /\ pc = "open"
  /\ Caught("open", "OSError")
  /\ ioFailed' = TRUE
  /\ UNCHANGED <<directory, csv, run, listing, i, scan, all_gps_keys, r, last, opened, csvPrev>>

(* lines 79-114 for the next element of gps_data_list *)
WriteRow ==
  /\ pc = "rows"
  /\ r <= Len(scan.list)
  /\ last' = BuildRow(scan.list[r].filename, scan.list[r].gps_info, all_gps_keys)
  /\ csv' = Append(csv, CsvRow(last'.row))
  /\ r' = r + 1
  /\ UNCHANGED <<directory, pc, run, listing, i, scan, all_gps_keys, opened, diag, raised,
                 failure, ioFailed, csvPrev>>

(* writer.writerow raises (disk full): the rows written so far stay in the file *)
WriteRowFails ==
  /\ pc = "rows"
  /\ r <= Len(scan.list)
  /\ Caught("write", "OSError")
  /\ ioFailed' = TRUE
  /\ UNCHANGED <<directory, csv, run, listing, i, scan, all_gps_keys, r, last, opened, csvPrev>>

(* line 116, and the return *)
Finish ==
  /\ pc = "rows"
  /\ r > Len(scan.list)
  /\ pc' = "done"
  /\ UNCHANGED <<directory, csv, run, listing, i, scan, all_gps_keys, r, last, opened, diag,
                 raised, failure, ioFailed, csvPrev>>

(* write_gps_to_csv is called again on the same directory and output path *)
CallAgain ==
  /\ pc = "done"
  /\ ~raised
  /\ run < MaxRuns
  /\ run' = run + 1
  /\ csvPrev' = csv
  /\ pc' = "start"
  /\ listing' = <<>>
  /\ i' = 1
  /\ scan' = NoScan
  /\ all_gps_keys' = <<>>
  /\ r' = 1
  /\ last' = NewRow("")
  /\ opened' = FALSE
  /\ diag' = 0
  /\ failure' = "none"
  /\ UNCHANGED <<directory, csv, raised, ioFailed>>

Next ==
  \/ ListDir
  \/ ListDirFails
  \/ ScanFile
  \/ Columns
  \/ OpenOutput
  \/ OpenOutputFails
  \/ WriteRow
  \/ WriteRowFails
  \/ Finish
  \/ CallAgain

Spec == Init /\ [][Next]_vars

(* ======================= properties ======================= *)
IOFailures == {"listdir", "open", "write"}

(* the current call has returned and met no I/O error *)
Returned_NoIOError == pc = "done" /\ failure \notin IOFailures

(* the TagMap of a directory entry *)
TagMapOf(e) == get_gps_info(e.content).info

(* the entries that are .jpg files with a non-empty TagMap, in listing order *)
Qualifying == SelectSeq(directory, LAMBDA e : IsJpg(e.name) /\ DOMAIN TagMapOf(e) # {})

TextCell(x) == [kind |-> "text", n |-> 0, s |-> x, seq |-> <<>>]
DecimalCell(x) == [kind |-> "decimal", n |-> x, s |-> "", seq |-> <<>>]

(* the index of a column of all_gps_keys, 0 when it is not a column *)
ColumnOf(key) ==
  IF key \in Range(all_gps_keys)
    THEN CHOOSE p \in 1..Len(all_gps_keys) : all_gps_keys[p] = key
    ELSE 0

(* the data rows written by the current call, and the image of data row j *)
DataRowIndices == IF opened THEN 1..(Len(csv) - 1) ELSE {}
ImageOf(j) == scan.list[j]
Cell(j, key) == csv[j + 1][ColumnOf(key) + 1]

DerivedColumns == Range(LatitudeColumns) \cup Range(LongitudeColumns)

(* C1: after write_gps_to_csv the first fields of the data rows are exactly  *)
(* the names of the .jpg entries (case-insensitive) with a non-empty TagMap, *)
(* in listing order; so there are as many data rows as such files.           *)
C1_RowsFollowListing ==
  Returned_NoIOError =>
    /\ opened
    /\ Len(csv) = 1 + Len(Qualifying)
    /\ \A j \in 1..Len(Qualifying) : csv[j + 1][1] = TextCell(Qualifying[j].name)

(* C2: the header row is 'Image Name', then the observed keys minus          *)
(* GPSAltitudeRef, GPSVersionID, GPSLatitude, GPSLongitude in lexicographic  *)
(* order, then the four latitude columns iff some image had GPSLatitude,     *)
(* then the four longitude columns iff some image had GPSLongitude.          *)
ObservedKeys == UNION {DOMAIN TagMapOf(Qualifying[j]) : j \in 1..Len(Qualifying)}
PlainKeys == ObservedKeys \ (excluded_keys \cup {StrKey("GPSLatitude"), StrKey("GPSLongitude")})
ClaimedTail ==
  [j \in 1..Len(LatitudeColumns \o LongitudeColumns) |->
     TextCell((LatitudeColumns \o LongitudeColumns)[j].name)]
C2_Header ==
  Returned_NoIOError =>
    /\ opened
    /\ Len(csv) >= 1
    /\ LET hdr == csv[1]
           nPlain == Cardinality(PlainKeys)
           lat == IF StrKey("GPSLatitude") \in ObservedKeys THEN SubSeq(ClaimedTail, 1, 4) ELSE <<>>
           long == IF StrKey("GPSLongitude") \in ObservedKeys THEN SubSeq(ClaimedTail, 5, 8) ELSE <<>>
       IN /\ Len(hdr) = 1 + nPlain + Len(lat) + Len(long)
          /\ hdr[1] = TextCell("Image Name")
          /\ {hdr[p] : p \in 2..(1 + nPlain)} = {TextCell(key.name) : key \in PlainKeys}
          /\ \A key \in PlainKeys : key.isStr
          /\ \A p \in 2..nPlain : LexLess(Chars(hdr[p].s), Chars(hdr[p + 1].s))
          /\ SubSeq(hdr, 2 + nPlain, Len(hdr)) = lat \o long
          /\ \A p \in 1..Len(hdr) :
               hdr[p] \notin {TextCell("GPSLatitude"), TextCell("GPSLongitude"),
                              TextCell("GPSAltitudeRef"), TextCell("GPSVersionID")}

(* C3: in every emitted row whose image has a GPSLatitude (GPSLongitude) of  *)
(* three numbers (d, m, s), the decimal cell is d + m/60 + s/3600 of that    *)
(* row's own triple; (10, 30, 0) gives 10.5 and (1, 0, 3600) gives 2.0.      *)
IsTriple(v) == v.kind = "seq" /\ Len(v.seq) = 3
IsNumberTriple(v) == IsTriple(v) /\ \A h \in 1..3 : v.seq[h].kind = "int"
DecimalOf(v) == DecimalCell(3600 * v.seq[1].n + 60 * v.seq[2].n + v.seq[3].n)
Latitude(j) == DictGet(ImageOf(j).gps_info, StrKey("GPSLatitude"), PyNone)
Longitude(j) == DictGet(ImageOf(j).gps_info, StrKey("GPSLongitude"), PyNone)
C3_DecimalOfOwnTriple ==
  /\ calculate_decimal(PyInt(10), PyInt(30), PyInt(0)) = PyFloat(37800)
  /\ calculate_decimal(PyInt(1), PyInt(0), PyInt(3600)) = PyFloat(7200)
  /\ \A j \in DataRowIndices :
       /\ IsNumberTriple(Latitude(j)) => Cell(j, LatitudeColumns[4]) = DecimalOf(Latitude(j))
       /\ IsNumberTriple(Longitude(j)) => Cell(j, LongitudeColumns[4]) = DecimalOf(Longitude(j))
C3_Witness ==
  /\ opened
  /\ Len(csv) = 3
  /\ IsNumberTriple(Latitude(1))
  /\ IsNumberTriple(Latitude(2))
  /\ Cell(1, LatitudeColumns[4]) = DecimalCell(37800)
  /\ Cell(2, LatitudeColumns[4]) = DecimalCell(7200)

(* C4: when GPSLatitude (GPSLongitude) is absent or is not a 3-element       *)
(* sequence, parse_gps_coordinate gives ('', '', ''), the degree, minutes,   *)
(* seconds and decimal cells of that coordinate are empty strings, and the   *)
(* row is still emitted with its other cells filled.                         *)
CoordinateCellsEmpty(j, columns) ==
  \A h \in 1..4 : columns[h] \in Range(all_gps_keys) => Cell(j, columns[h]) = TextCell("")
OtherCellsFilled(j) ==
  \A p \in 1..Len(all_gps_keys) :
    (all_gps_keys[p] \in DOMAIN ImageOf(j).gps_info) =>
      csv[j + 1][p + 1] = CsvField(ImageOf(j).gps_info[all_gps_keys[p]])
C4_MalformedCoordinateEmpty ==
  /\ \A j \in DataRowIndices :
       /\ ~IsTriple(Latitude(j)) =>
            /\ parse_gps_coordinate(Latitude(j)) = <<Empty, Empty, Empty>>
            /\ CoordinateCellsEmpty(j, LatitudeColumns)
            /\ OtherCellsFilled(j)
       /\ ~IsTriple(Longitude(j)) =>
            /\ parse_gps_coordinate(Longitude(j)) = <<Empty, Empty, Empty>>
            /\ CoordinateCellsEmpty(j, LongitudeColumns)
            /\ OtherCellsFilled(j)
  /\ (pc = "done" /\ failure = "none") => Len(csv) = 1 + Len(scan.list)
C4_Witness ==
  /\ pc = "done"
  /\ failure = "none"
  /\ \E j \in DataRowIndices :
       /\ Latitude(j).kind = "seq"
       /\ Len(Latitude(j).seq) = 2
       /\ Cell(j, LatitudeColumns[4]) = TextCell("")
       /\ \E p \in 1..Len(all_gps_keys) : csv[j + 1][p + 1] # TextCell("")

(* C5: get_gps_info returns an empty TagMap for a file that cannot be read   *)
(* instead of raising; every matching file is still read, and the output is  *)
(* what it would be were the failing files not in the directory.             *)
Readable == SelectSeq(directory, LAMBDA e : e.content.kind # "corrupt")
JpgNames ==
  LET jpgs == SelectSeq(directory, LAMBDA e : IsJpg(e.name))
  IN [j \in 1..Len(jpgs) |-> jpgs[j].name]
C5_BadFileIsolated ==
  /\ \A e \in Range(directory) :
       e.content.kind = "corrupt" => get_gps_info(e.content) = Returned(<<>>)
  /\ Returned_NoIOError =>
       /\ scan.read = JpgNames
       /\ csv = Export(Readable, csvPrev)
       /\ \A j \in DataRowIndices :
            \E e \in Range(Readable) : csv[j + 1][1] = TextCell(e.name)
C5_Witness ==
  /\ Returned_NoIOError
  /\ Len(directory) = 2
  /\ \E a, b \in 1..2 :
       /\ a # b
       /\ IsJpg(directory[a].name)
       /\ directory[a].content.kind = "corrupt"
       /\ Len(csv) = 2
       /\ opened
       /\ csv[2][1] = TextCell(directory[b].name)

(* C6: write_gps_to_csv never raises: whatever fails inside it is caught,    *)
(* one diagnostic is printed and the function returns.                      *)
C6_NeverRaises ==
  /\ ~raised
  /\ failure # "none" => (pc = "done" /\ diag = 1)
  /\ failure = "none" => diag = 0
C6_Witness == pc = "done" /\ failure = "sorted" /\ diag = 1 /\ ~raised

(* C7: every data row has as many fields as the header row, the filename     *)
(* first, and for a column that is not a derived coordinate column the cell *)
(* is the image's TagMap value of that tag, or the empty string.             *)
C7_RowsAligned ==
  opened =>
    /\ Len(csv[1]) = 1 + Len(all_gps_keys)
    /\ \A p \in 1..Len(all_gps_keys) : csv[1][p + 1] = CsvField(KeyValue(all_gps_keys[p]))
    /\ \A j \in DataRowIndices :
         /\ Len(csv[j + 1]) = Len(csv[1])
         /\ csv[j + 1][1] = TextCell(ImageOf(j).filename)
         /\ \A p \in 1..Len(all_gps_keys) :
              all_gps_keys[p] \notin DerivedColumns =>
                csv[j + 1][p + 1] =
                  IF all_gps_keys[p] \in DOMAIN ImageOf(j).gps_info
                    THEN CsvField(ImageOf(j).gps_info[all_gps_keys[p]])
                    ELSE TextCell("")
C7_Witness ==
  /\ opened
  /\ \E j \in DataRowIndices : \E p \in 1..Len(all_gps_keys) :
       /\ all_gps_keys[p] \notin DerivedColumns
       /\ all_gps_keys[p] \notin DOMAIN ImageOf(j).gps_info
       /\ csv[j + 1][p + 1] = TextCell("")

(* C8: a second call on the unchanged directory with the same output path    *)
(* leaves the same output content, whatever the file held before.           *)
C8_Idempotent ==
  (pc = "done" /\ ~ioFailed) =>
    /\ run >= 2 => csv = csvPrev
    /\ opened => csv = Export(directory, <<>>)
C8_Witness == pc = "done" /\ ~ioFailed /\ run = 2 /\ opened /\ Len(csv) >= 2

(* C9 as stated: parse_gps_coordinate is called exactly once per coordinate  *)
(* per row.                                                                  *)
RowBuilt == r > 1
C9_OneSplitPerCoordinate ==
  RowBuilt =>
    /\ LatitudeColumns[1] \in Range(all_gps_keys) => last.lat_parses = 1
    /\ LongitudeColumns[1] \in Range(all_gps_keys) => last.long_parses = 1

(* C9 amended: parse_gps_coordinate is called once for each of the degree,   *)
(* minutes and seconds columns, three times per coordinate per row (none     *)
(* when the coordinate has no columns), each time on the same TagMap value;  *)
(* the decimal column calls it not at all and uses the values those calls    *)
(* stored.                                                                   *)
C9_ThreeSplitsPerCoordinate ==
  RowBuilt =>
    /\ last.lat_parses = IF LatitudeColumns[1] \in Range(all_gps_keys) THEN 3 ELSE 0
    /\ last.long_parses = IF LongitudeColumns[1] \in Range(all_gps_keys) THEN 3 ELSE 0
    /\ LatitudeColumns[4] \in Range(all_gps_keys) =>
         last.row[ColumnOf(LatitudeColumns[4]) + 1] =
           calculate_decimal(last.gps_lat_degree, last.gps_lat_minutes, last.gps_lat_seconds)
    /\ LongitudeColumns[4] \in Range(all_gps_keys) =>
         last.row[ColumnOf(LongitudeColumns[4]) + 1] =
           calculate_decimal(last.gps_long_degree, last.gps_long_minutes, last.gps_long_seconds)
C9_Witness ==
  /\ RowBuilt
  /\ last.lat_parses = 3
  /\ last.long_parses = 3
  /\ last.gps_lat_degree = PyInt(10)

(* C10: every key of the TagMap returned by get_gps_info is a tag name (a    *)
(* string), also for a GPS tag id the lookup table does not contain.         *)
C10_KeysAreNames ==
  \A j \in 1..Len(scan.list) : \A key \in DOMAIN scan.list[j].gps_info : key.isStr

====
